---- MODULE Spec2Model ----
(***************************************************************************)
(* Model of the grid traffic simulator of discrete_event_simulator.py.     *)
(*                                                                         *)
(* The module-level configuration of the program (N, TOTAL_TICKS, ...) is  *)
(* held in the record cfg, chosen by Init among a few scaled-down          *)
(* scenarios; the operators N, TOTAL_TICKS, ... read it, so the            *)
(* definitions below keep the shape of the source.  Probabilities and      *)
(* random draws are in hundredths: a draw u stands for u/100 in [0,1).     *)
(***************************************************************************)
EXTENDS Integers, Sequences, FiniteSets, TLC

VARIABLES
    cfg,            \* the global configuration (source lines 10-49)
    seed,           \* random_seed of simulate: NoSeed, or the seed of the run
    rng,            \* state of the seeded generator
    run,            \* number of calls of simulate started so far
    pc,             \* position in simulate
    t,              \* loop variable of the main time loop
    ni,             \* index in nodes of the intersection served next
    in_transit,     \* in_transit[(u,v)]: sequence of <<car, remaining>>
    stopped,        \* stopped[(u,v)]: sequence of cars
    car_id, completed, sum_tt, queue_samples, sum_queue,
    result,         \* the summary returned by the last finished call
    first,          \* history: the summary returned by the first call
    spawned,        \* history: ids of the cars placed on a boundary link, per run
    exited,         \* history: ids of the cars that left the grid, per run
    last,           \* history: what the last step of the pipeline did
    trials,         \* history: successful arrival trials, per run
    passed          \* history: ids of the cars served so far in this tick

vars == <<cfg, seed, rng, run, pc, t, ni, in_transit, stopped, car_id,
          completed, sum_tt, queue_samples, sum_queue, result, first,
          spawned, exited, last, trials, passed>>

(***************************************************************************)
(* Bounds of the model.                                                    *)
(***************************************************************************)
MaxCars == 2        \* successful arrival trials per run when draws are free
MaxRuns == 2        \* calls of simulate in one process
MaxSeed == 4        \* seeds tried for the seeded runs
MaxExits == 1       \* completions per run when every arrival trial succeeds

(***************************************************************************)
(* Global configuration                                                    *)
(***************************************************************************)
N == cfg.N
TOTAL_TICKS == cfg.TOTAL_TICKS
NORTH == "N"
SOUTH == "S"
EAST == "E"
WEST == "W"
CLOCKWISE == <<NORTH, EAST, SOUTH, WEST>>
STRAIGHT == "straight"
LEFT == "left"
RIGHT == "right"
TURN_PROBABILITIES == cfg.TURN_PROBABILITIES
CYCLE_NS_GREEN == cfg.CYCLE_NS_GREEN
CYCLE_EW_GREEN == cfg.CYCLE_EW_GREEN
CYCLE_TOTAL == CYCLE_NS_GREEN + CYCLE_EW_GREEN
FLOW_PER_TICK == cfg.FLOW_PER_TICK
LINK_IN_TRANSIT_CAP == cfg.LINK_IN_TRANSIT_CAP
QUEUE_CAP == cfg.QUEUE_CAP
BASE_TRAVEL_T == cfg.BASE_TRAVEL_T
ARRIVAL_RATE == cfg.ARRIVAL_RATE

\* The default scenario: the program's configuration scaled down.
BaseConfig ==
    [N |-> 2, TOTAL_TICKS |-> 4, TURN_PROBABILITIES |-> <<25, 50, 25>>,
     CYCLE_NS_GREEN |-> 1, CYCLE_EW_GREEN |-> 2, FLOW_PER_TICK |-> 1,
     LINK_IN_TRANSIT_CAP |-> 1, QUEUE_CAP |-> 1, BASE_TRAVEL_T |-> 2,
     ARRIVAL_RATE |-> 33]

\* Stopped-queue capacity 0 everywhere.
ZeroQueueConfig ==
    [BaseConfig EXCEPT !.QUEUE_CAP = 0, !.LINK_IN_TRANSIT_CAP = 2]

\* Arrival rate 0.
NoArrivalConfig == [BaseConfig EXCEPT !.ARRIVAL_RATE = 0]

\* Arrival rate 1, capacities and flow large enough never to block.
FullRateConfig ==
    [BaseConfig EXCEPT !.ARRIVAL_RATE = 100, !.TOTAL_TICKS = 11,
                       !.BASE_TRAVEL_T = 1,
                       !.CYCLE_NS_GREEN = 1, !.CYCLE_EW_GREEN = 1,
                       !.LINK_IN_TRANSIT_CAP = 16, !.QUEUE_CAP = 16,
                       !.FLOW_PER_TICK = 1]

\* Arrival rate 0 on other grids and run lengths.
NoArrivalConfig1 == [NoArrivalConfig EXCEPT !.N = 1, !.TOTAL_TICKS = 2]
NoArrivalConfig3 == [NoArrivalConfig EXCEPT !.N = 3, !.TOTAL_TICKS = 5]

\* Arrival rate 1, small capacities and two cars per green: links fill up
\* and block.
CongestedConfig ==
    [BaseConfig EXCEPT !.ARRIVAL_RATE = 100, !.TOTAL_TICKS = 5,
                       !.CYCLE_NS_GREEN = 1, !.CYCLE_EW_GREEN = 1,
                       !.LINK_IN_TRANSIT_CAP = 2, !.QUEUE_CAP = 2,
                       !.FLOW_PER_TICK = 2]

\* The same on the 3 x 3 grid, where approaches of one node compete for a
\* link, for one tick.
Congested3Config ==
    [CongestedConfig EXCEPT !.N = 3, !.TOTAL_TICKS = 1,
                            !.LINK_IN_TRANSIT_CAP = 1, !.BASE_TRAVEL_T = 1]

\* The same for the seeded runs, which are long enough for links to be full
\* when a tick starts.
Congested3LongConfig == [Congested3Config EXCEPT !.TOTAL_TICKS = 8]

\* The 3 x 3 grid, the smallest one with links that are not entry links.
Grid3Config ==
    [BaseConfig EXCEPT !.N = 3, !.TOTAL_TICKS = 2, !.BASE_TRAVEL_T = 1]

\* The 1 x 1 grid: one node and no link.
SingleNodeConfig == [BaseConfig EXCEPT !.N = 1, !.TOTAL_TICKS = 3]

\* A run of no tick.
NoTickConfig == [BaseConfig EXCEPT !.TOTAL_TICKS = 0]

Configs ==
    {BaseConfig, ZeroQueueConfig, NoArrivalConfig, NoArrivalConfig1,
     NoArrivalConfig3, SingleNodeConfig, NoTickConfig}

\* Configurations the specification calls configuration errors.
BadGridConfig == [BaseConfig EXCEPT !.N = 0]
BadCapConfig == [BaseConfig EXCEPT !.LINK_IN_TRANSIT_CAP = -1]
BadQueueConfig == [BaseConfig EXCEPT !.QUEUE_CAP = -1, !.TOTAL_TICKS = 3]
BadTurnConfig ==
    [BaseConfig EXCEPT !.TURN_PROBABILITIES = <<25, 25, 25>>,
                       !.TOTAL_TICKS = 3]
BadRateConfig == [BaseConfig EXCEPT !.ARRIVAL_RATE = -10]
BadCycleConfig ==
    [BaseConfig EXCEPT !.CYCLE_NS_GREEN = -1, !.CYCLE_EW_GREEN = 1]

BadConfigs ==
    {BadGridConfig, BadCapConfig, BadQueueConfig, BadTurnConfig,
     BadRateConfig, BadCycleConfig}

NoSeed == 0
Seeds == 1..MaxSeed

(***************************************************************************)
(* Data classes                                                            *)
(***************************************************************************)
Node(i, j) == <<i, j>>
Car(id, t_enter) == [id |-> id, t_enter |-> t_enter]

Range(s) == {s[k] : k \in 1..Len(s)}

RECURSIVE Concat(_)
Concat(ss) == IF ss = <<>> THEN <<>> ELSE Head(ss) \o Concat(Tail(ss))

(***************************************************************************)
(* Mesoscopic helpers                                                      *)
(***************************************************************************)
outgoing_for(node) ==
    LET i == node[1]
        j == node[2]
    IN  (IF i > 0 THEN << <<Node(i - 1, j), NORTH>> >> ELSE <<>>)
        \o (IF j < N - 1 THEN << <<Node(i, j + 1), EAST>> >> ELSE <<>>)
        \o (IF i < N - 1 THEN << <<Node(i + 1, j), SOUTH>> >> ELSE <<>>)
        \o (IF j > 0 THEN << <<Node(i, j - 1), WEST>> >> ELSE <<>>)

incoming_for(node) ==
    LET i == node[1]
        j == node[2]
    IN  (IF i < N - 1 THEN << <<Node(i + 1, j), NORTH>> >> ELSE <<>>)
        \o (IF j > 0 THEN << <<Node(i, j - 1), EAST>> >> ELSE <<>>)
        \o (IF i > 0 THEN << <<Node(i - 1, j), SOUTH>> >> ELSE <<>>)
        \o (IF j < N - 1 THEN << <<Node(i, j + 1), WEST>> >> ELSE <<>>)

\* The index (from 1) of direction d in CLOCKWISE.
ClockwiseIndex(d) == CHOOSE k \in 1..4 : CLOCKWISE[k] = d

\* The turn picked by the draw u (lines 117-125).
pick_turn(u) ==
    LET left == TURN_PROBABILITIES[1]
        straight == TURN_PROBABILITIES[2]
    IN  IF u < left THEN LEFT
        ELSE IF u < left + straight THEN STRAIGHT
        ELSE RIGHT

\* A left turn goes back where the car came from.
rotate_back(approach_direction, turn) ==
    IF turn # STRAIGHT
    THEN LET approach_idx == ClockwiseIndex(approach_direction) - 1
             delta == IF turn = LEFT THEN 2 ELSE 1
             new_idx == (approach_idx + delta) % Len(CLOCKWISE)
         IN  CLOCKWISE[new_idx + 1]
    ELSE approach_direction

\* Left and right exchanged.
rotate_mirrored(approach_direction, turn) ==
    IF turn # STRAIGHT
    THEN LET approach_idx == ClockwiseIndex(approach_direction) - 1
             delta == IF turn = LEFT THEN 1 ELSE -1
             new_idx == (approach_idx + delta) % Len(CLOCKWISE)
         IN  CLOCKWISE[new_idx + 1]
    ELSE approach_direction

\* The new travel direction for the turn (lines 127-138).
rotate(approach_direction, turn) ==
    IF turn # STRAIGHT
    THEN LET approach_idx == ClockwiseIndex(approach_direction) - 1
             delta == IF turn = LEFT THEN -1 ELSE 1
             new_idx == (approach_idx + delta) % Len(CLOCKWISE)
         IN  CLOCKWISE[new_idx + 1]
    ELSE approach_direction

turn_direction(approach_direction, u) ==
    rotate(approach_direction, pick_turn(u))

\* Cars also enter along the north edge instead of across it.
is_boundary_incoming_link_along(src, dst) ==
    LET si == src[1]
        sj == src[2]
        di == dst[1]
        dj == dst[2]
    IN  \/ (si = 0 /\ di = si /\ sj # dj)
        \/ (si = N - 1 /\ di = si - 1 /\ sj = dj)
        \/ (sj = 0 /\ dj = sj + 1 /\ si = di)
        \/ (sj = N - 1 /\ dj = sj - 1 /\ si = di)

is_boundary_incoming_link(src, dst) ==
    LET si == src[1]
        sj == src[2]
        di == dst[1]
        dj == dst[2]
    IN  \/ (si = 0 /\ di = si + 1 /\ sj = dj)
        \/ (si = N - 1 /\ di = si - 1 /\ sj = dj)
        \/ (sj = 0 /\ dj = sj + 1 /\ si = di)
        \/ (sj = N - 1 /\ dj = sj - 1 /\ si = di)

\* Python's a % b for b # 0: the result has the sign of b.
PyMod(a, b) == IF b > 0 THEN a % b ELSE 0 - ((0 - a) % (0 - b))

\* The two phases in the other order.
signal_phase_swapped(tt, node) ==
    IF PyMod(tt, CYCLE_TOTAL) < CYCLE_NS_GREEN
    THEN {EAST, WEST}
    ELSE {NORTH, SOUTH}

\* The green directions at time tt; CYCLE_TOTAL is not 0 here.
signal_phase(tt, node) ==
    IF PyMod(tt, CYCLE_TOTAL) < CYCLE_NS_GREEN
    THEN {NORTH, SOUTH}
    ELSE {EAST, WEST}

\* A travel time one tick short.
add_travel_time_short == BASE_TRAVEL_T - 1

add_travel_time == BASE_TRAVEL_T

(***************************************************************************)
(* Network state (links, queues)                                           *)
(***************************************************************************)
nodes ==
    IF N > 0
    THEN [k \in 1..(N * N) |-> Node((k - 1) \div N, (k - 1) % N)]
    ELSE <<>>

links ==
    Concat([k \in 1..Len(nodes) |->
              LET out == outgoing_for(nodes[k])
              IN  [m \in 1..Len(out) |-> <<nodes[k], out[m][1]>>]])

LinkSet == Range(links)

(***************************************************************************)
(* The pseudo-random source.  Free draws (seed = NoSeed) are any value of  *)
(* [0,1); one representative per interval cut by the thresholds a draw is  *)
(* compared with is enough.  A seeded source is a fixed sequence of draws, *)
(* a function of the seed and of the number of draws taken since seeding.  *)
(***************************************************************************)
DrawClasses(thresholds) == {0} \cup {x \in thresholds : 0 < x /\ x < 100}

ArrivalDraws == DrawClasses({ARRIVAL_RATE})

TurnDraws ==
    DrawClasses({TURN_PROBABILITIES[1],
                 TURN_PROBABILITIES[1] + TURN_PROBABILITIES[2]})

\* random.seed(sd): the state of the generator after seeding.
seeded(sd) == sd % 100

\* The state of the generator x after k calls of random.random(); a call
\* returns the state it leaves.
RECURSIVE random(_, _)
random(x, k) == IF k = 0 THEN x ELSE (21 * random(x, k - 1) + 17) % 100

\* The next n draws of the seeded source.
SeededDraws(n) == [k \in 1..n |-> random(rng, k)]

(***************************************************************************)
(* Primitive link/light operations                                         *)
(***************************************************************************)
\* enqueue_departure on the buffers it: the new buffers and the return value.
\* An off-by-one capacity check.
link_has_room_le(buf) == Len(buf) <= LINK_IN_TRANSIT_CAP

\* "if len(buf) < LINK_IN_TRANSIT_CAP"
link_has_room(buf) == Len(buf) < LINK_IN_TRANSIT_CAP

\* A refused car is put on the link all the same.
enqueue_departure_leaky(it, src, dst, car) ==
    LET buf == it[<<src, dst>>]
    IN  [ok |-> link_has_room(buf),
         in_transit |-> [it EXCEPT ![<<src, dst>>] =
                           Append(buf, <<car, add_travel_time>>)]]

enqueue_departure(it, src, dst, car) ==
    LET buf == it[<<src, dst>>]
    IN  IF link_has_room(buf)
        THEN [ok |-> TRUE,
              in_transit |-> [it EXCEPT ![<<src, dst>>] =
                                Append(buf, <<car, add_travel_time>>)]]
        ELSE [ok |-> FALSE, in_transit |-> it]

\* "age all cars by 1 tick"
age(buf) == [k \in 1..Len(buf) |-> <<buf[k][1], buf[k][2] - 1>>]

\* An off-by-one queue capacity check.
queue_has_room_le(q) == Len(q) <= QUEUE_CAP

\* "if len(q) < QUEUE_CAP"
queue_has_room(q) == Len(q) < QUEUE_CAP

\* A ready car that finds the stopped queue full is dropped.
RECURSIVE pop_loop_drop(_, _, _, _)
pop_loop_drop(buf, q, tmp, moved) ==
    IF buf = <<>>
    THEN [in_transit |-> tmp, stopped |-> q, moved |-> moved]
    ELSE LET car == Head(buf)[1]
             remaining == Head(buf)[2]
         IN  IF remaining <= 0
             THEN IF queue_has_room(q)
                  THEN pop_loop_drop(Tail(buf), Append(q, car), tmp, moved + 1)
                  ELSE pop_loop_drop(Tail(buf), q, tmp, moved)
             ELSE pop_loop_drop(Tail(buf), q,
                                Append(tmp, <<car, remaining>>), moved)

\* A stalled car keeps the remaining time the aging left it.
RECURSIVE pop_loop_unclamped(_, _, _, _)
pop_loop_unclamped(buf, q, tmp, moved) ==
    IF buf = <<>>
    THEN [in_transit |-> tmp, stopped |-> q, moved |-> moved]
    ELSE LET car == Head(buf)[1]
             remaining == Head(buf)[2]
         IN  IF remaining <= 0
             THEN IF queue_has_room(q)
                  THEN pop_loop_unclamped(Tail(buf), Append(q, car), tmp,
                                          moved + 1)
                  ELSE pop_loop_unclamped(Tail(buf), q,
                                          << <<car, remaining>> >> \o tmp,
                                          moved)
             ELSE pop_loop_unclamped(Tail(buf), q,
                                     Append(tmp, <<car, remaining>>), moved)

\* The while loop of pop_to_queue_if_arrived: buf is what is left of the aged
\* buffer, q the stopped queue, tmp the rebuilt buffer.
RECURSIVE pop_loop(_, _, _, _)
pop_loop(buf, q, tmp, moved) ==
    IF buf = <<>>
    THEN [in_transit |-> tmp, stopped |-> q, moved |-> moved]
    ELSE LET car == Head(buf)[1]
             remaining == Head(buf)[2]
         IN  IF remaining <= 0
             THEN IF queue_has_room(q)
                  THEN pop_loop(Tail(buf), Append(q, car), tmp, moved + 1)
                  ELSE pop_loop(Tail(buf), q, << <<car, 0>> >> \o tmp, moved)
             ELSE pop_loop(Tail(buf), q, Append(tmp, <<car, remaining>>), moved)

pop_to_queue_if_arrived(buf, q) == pop_loop(age(buf), q, <<>>, 0)

NoNode == <<>>

\* "Figure out where that direction goes in the grid": NoNode when the car
\* exits.
next_node_for(node, next_dir) ==
    LET i == node[1]
        j == node[2]
    IN  IF next_dir = NORTH /\ i > 0 THEN Node(i - 1, j)
        ELSE IF next_dir = SOUTH /\ i < N - 1 THEN Node(i + 1, j)
        ELSE IF next_dir = WEST /\ j > 0 THEN Node(i, j - 1)
        ELSE IF next_dir = EAST /\ j < N - 1 THEN Node(i, j + 1)
        ELSE NoNode

\* The served car is not taken out of its stopped queue.
popleft_keep(q) == q

\* The served car is taken from the tail of its stopped queue.
popleft_last(q) == SubSeq(q, 1, Len(q) - 1)

\* "q.popleft()" in serve_intersection
popleft(q) == Tail(q)

\* The exit of the car is not counted.
record_completion_uncounted(s, car, t_now) ==
    [s EXCEPT !.sum_tt = @ + (t_now - car.t_enter),
              !.exited = @ \cup {car.id}]

\* record_completion on the run state s.
record_completion(s, car, t_now) ==
    [s EXCEPT !.completed = @ + 1,
              !.sum_tt = @ + (t_now - car.t_enter),
              !.exited = @ \cup {car.id}]

\* What one iteration of the service loop did, for the history variable last.
Event(car, link, dir, next_dir, outcome, target) ==
    [car |-> car, link |-> link, dir |-> dir, next_dir |-> next_dir,
     outcome |-> outcome, target |-> target]

\* The ids of the cars the log says were taken out of a stopped queue.
Served(log) ==
    {log[k].car.id : k \in {m \in 1..Len(log) : log[m].outcome # "blocked"}}

\* The while loop of serve_intersection for the approach src_node -> node.
\* s holds the buffers and counters, d the draws, s.used the draws taken.
RECURSIVE serve_queue(_, _, _, _, _, _, _)
serve_queue(s, tt, node, src_node, approach_dir, moves_attempted, d) ==
    LET link_key == <<src_node, node>>
        q == s.stopped[link_key]
    IN  IF moves_attempted < FLOW_PER_TICK /\ q # <<>>
        THEN LET car == Head(q)
                 next_dir == turn_direction(approach_dir, d[s.used + 1])
                 next_node == next_node_for(node, next_dir)
                 s1 == [s EXCEPT !.used = @ + 1]
             IN  IF next_node = NoNode
                 THEN serve_queue(
                        [record_completion(s1, car, tt) EXCEPT
                           !.stopped[link_key] = popleft(q),
                           !.served = @ + 1,
                           !.log = Append(@, Event(car, link_key, approach_dir,
                                                   next_dir, "exit", NoNode))],
                        tt, node, src_node, approach_dir,
                        moves_attempted + 1, d)
                 ELSE LET r == enqueue_departure(s.in_transit, node,
                                                 next_node, car)
                      IN  IF r.ok
                          THEN serve_queue(
                                 [s1 EXCEPT
                                    !.in_transit = r.in_transit,
                                    !.stopped[link_key] = popleft(q),
                                    !.served = @ + 1,
                                    !.log = Append(@, Event(car, link_key,
                                              approach_dir, next_dir, "move",
                                              <<node, next_node>>))],
                                 tt, node, src_node, approach_dir,
                                 moves_attempted + 1, d)
                          ELSE [s1 EXCEPT
                                  !.in_transit = r.in_transit,
                                  !.log = Append(@, Event(car, link_key,
                                            approach_dir, next_dir, "blocked",
                                            <<node, next_node>>))]
        ELSE s

\* The for loop of serve_intersection over the approaches inc[k..].
RECURSIVE serve_approaches(_, _, _, _, _, _)
serve_approaches(s, tt, node, inc, k, d) ==
    IF k > Len(inc) THEN s
    ELSE LET src_node == inc[k][1]
             approach_dir == inc[k][2]
         IN  IF approach_dir \notin signal_phase(tt, node)
             THEN serve_approaches(s, tt, node, inc, k + 1, d)
             ELSE serve_approaches(
                    serve_queue(s, tt, node, src_node, approach_dir, 0, d),
                    tt, node, inc, k + 1, d)

serve_intersection(s, tt, node, d) ==
    serve_approaches(s, tt, node, incoming_for(node), 1, d)

\* The most draws serve_intersection(tt, node) takes: each iteration of the
\* while loop takes one, and a green approach has at most FLOW_PER_TICK
\* iterations and at most one per stopped car.
RECURSIVE MaxTurnDraws(_, _, _)
MaxTurnDraws(tt, node, inc) ==
    IF inc = <<>> THEN 0
    ELSE LET q == stopped[<<Head(inc)[1], node>>]
             here == IF Head(inc)[2] \notin signal_phase(tt, node)
                        \/ FLOW_PER_TICK <= 0
                     THEN 0
                     ELSE IF Len(q) < FLOW_PER_TICK THEN Len(q)
                     ELSE FLOW_PER_TICK
         IN  here + MaxTurnDraws(tt, node, Tail(inc))

(***************************************************************************)
(* Simulator loop                                                          *)
(***************************************************************************)
\* Phase (1) of a tick, for links[k..]: s holds the buffers, the id counter,
\* the number of cars placed and the draws taken.
\* An off-by-one comparison of the draw with the rate.
arrives_le(rand) == rand <= ARRIVAL_RATE

\* "if random.random() < ARRIVAL_RATE"
arrives(rand) == rand < ARRIVAL_RATE

\* The id counter advances only when the new car is accepted.
RECURSIVE arrival_loop_accepted(_, _, _)
arrival_loop_accepted(ls, s, d) ==
    IF ls = <<>> THEN s
    ELSE LET u == Head(ls)[1]
             v == Head(ls)[2]
         IN  IF is_boundary_incoming_link(u, v)
             THEN IF arrives(d[s.used + 1])
                  THEN LET new_car == Car(s.car_id + 1, t)
                           r == enqueue_departure(s.in_transit, u, v, new_car)
                       IN  arrival_loop_accepted(Tail(ls),
                             [in_transit |-> r.in_transit,
                              car_id |-> IF r.ok THEN s.car_id + 1
                                         ELSE s.car_id,
                              placed |-> s.placed \cup
                                 (IF r.ok THEN {new_car.id} ELSE {}),
                              trials |-> s.trials + 1,
                              used |-> s.used + 1], d)
                  ELSE arrival_loop_accepted(Tail(ls),
                                             [s EXCEPT !.used = @ + 1], d)
             ELSE arrival_loop_accepted(Tail(ls), s, d)

RECURSIVE arrival_loop(_, _, _)
arrival_loop(ls, s, d) ==
    IF ls = <<>> THEN s
    ELSE LET u == Head(ls)[1]
             v == Head(ls)[2]
         IN  IF is_boundary_incoming_link(u, v)
             THEN IF arrives(d[s.used + 1])
                  THEN LET new_car == Car(s.car_id + 1, t)
                           r == enqueue_departure(s.in_transit, u, v, new_car)
                       IN  arrival_loop(Tail(ls),
                             [in_transit |-> r.in_transit,
                              car_id |-> s.car_id + 1,
                              placed |-> s.placed \cup
                                 (IF r.ok THEN {new_car.id} ELSE {}),
                              trials |-> s.trials + 1,
                              used |-> s.used + 1], d)
                  ELSE arrival_loop(Tail(ls), [s EXCEPT !.used = @ + 1], d)
             ELSE arrival_loop(Tail(ls), s, d)

BoundaryCount ==
    Cardinality({k \in 1..Len(links) :
                   is_boundary_incoming_link(links[k][1], links[k][2])})

\* A float quotient, kept exact as numerator and denominator.
Ratio(num, den) == [num |-> num, den |-> den]
\* An average with no value.
Zero_undefined == Ratio(0, 0)

\* "else 0.0"
Zero == Ratio(0, 1)
SameRatio(a, b) == a.num * b.den = b.num * a.den

NoResult == [ticks |-> -1]

\* The call simulate(random_seed): seeding and the reset of the statistics.
Simulate ==
    /\ run' = run + 1
    /\ rng' = IF seed = NoSeed THEN rng ELSE seeded(seed)
    /\ car_id' = 0
    /\ completed' = 0
    /\ sum_tt' = 0
    /\ queue_samples' = 0
    /\ sum_queue' = 0
    /\ t' = 0
    /\ pc' = IF 0 < TOTAL_TICKS THEN "arrivals" ELSE "summary"
    /\ spawned' = {}
    /\ exited' = {}
    /\ last' = <<>>
    /\ trials' = 0
    /\ passed' = {}
    /\ UNCHANGED <<cfg, seed, ni, in_transit, stopped, result, first>>

FirstCall == pc = "idle" /\ Simulate

LaterCall == pc = "done" /\ run < MaxRuns /\ Simulate

\* (1) Generate new arrivals at boundary links, with the draws d.
Arrivals(d) ==
    /\ pc = "arrivals"
    /\ LET r == arrival_loop(links, [in_transit |-> in_transit, car_id |-> car_id,
                                     placed |-> {}, trials |-> 0,
                                     used |-> 0], d)
       IN  /\ in_transit' = r.in_transit
           /\ car_id' = r.car_id
           /\ spawned' = spawned \cup r.placed
           /\ trials' = trials + r.trials
           /\ rng' = IF seed = NoSeed THEN rng ELSE random(rng, r.used)
    /\ pc' = "advance"
    /\ last' = <<>>
    /\ UNCHANGED <<cfg, seed, run, t, ni, stopped, completed, sum_tt,
                   queue_samples, sum_queue, result, first, exited, passed>>

Successes(d) == Cardinality({k \in DOMAIN d : d[k] < ARRIVAL_RATE})

ArrivalInputs ==
    IF seed # NoSeed
    THEN {SeededDraws(BoundaryCount)}
    ELSE {d \in [1..BoundaryCount -> ArrivalDraws] :
            ARRIVAL_RATE < 100 => car_id + Successes(d) <= MaxCars}

ArrivalsStep == pc = "arrivals" /\ \E d \in ArrivalInputs : Arrivals(d)

\* (2) Advance cars along every link by 1 tick.
Advance ==
    /\ pc = "advance"
    /\ in_transit' = [l \in LinkSet |->
         pop_to_queue_if_arrived(in_transit[l], stopped[l]).in_transit]
    /\ stopped' = [l \in LinkSet |->
         pop_to_queue_if_arrived(in_transit[l], stopped[l]).stopped]
    /\ pc' = IF Len(nodes) > 0 THEN "serve" ELSE "sample"
    /\ ni' = 1
    /\ last' = <<>>
    /\ UNCHANGED <<cfg, seed, rng, run, t, car_id, completed, sum_tt,
                   queue_samples, sum_queue, result, first, spawned, exited,
                   trials, passed>>

\* (3) One iteration of "for node in nodes": serve_intersection(t, node),
\* with the draws d.  signal_phase divides by CYCLE_TOTAL: when that is 0
\* the call raises ZeroDivisionError and simulate ends with it.
Serve(d) ==
    /\ pc = "serve"
    /\ IF CYCLE_TOTAL = 0
       THEN /\ pc' = "raised"
            /\ last' = <<>>
            /\ UNCHANGED <<ni, in_transit, stopped, completed, sum_tt,
                           exited, rng, passed>>
       ELSE LET r == serve_intersection(
                       [in_transit |-> in_transit, stopped |-> stopped,
                        completed |-> completed, sum_tt |-> sum_tt,
                        exited |-> exited, used |-> 0, served |-> 0,
                        log |-> <<>>],
                       t, nodes[ni], d)
            IN  /\ in_transit' = r.in_transit
                /\ stopped' = r.stopped
                /\ completed' = r.completed
                /\ sum_tt' = r.sum_tt
                /\ exited' = r.exited
                /\ last' = r.log
                /\ passed' = passed \cup Served(r.log)
                /\ rng' = IF seed = NoSeed THEN rng ELSE random(rng, r.used)
                /\ ni' = ni + 1
                /\ pc' = IF ni < Len(nodes) THEN "serve" ELSE "sample"
    /\ UNCHANGED <<cfg, seed, run, t, car_id, queue_samples, sum_queue,
                   result, first, spawned, trials>>

TurnInputs ==
    LET n == IF CYCLE_TOTAL = 0 THEN 0
             ELSE MaxTurnDraws(t, nodes[ni], incoming_for(nodes[ni]))
    IN  IF seed # NoSeed
        THEN {SeededDraws(n)}
        ELSE [1..n -> TurnDraws]

\* When every arrival trial succeeds the cars are bounded by the run length,
\* and the free turn draws are those that let at most MaxExits cars complete.
ServeStep ==
    /\ pc = "serve"
    /\ \E d \in TurnInputs :
          /\ Serve(d)
          /\ (seed = NoSeed /\ ARRIVAL_RATE >= 100) => completed' <= MaxExits

RECURSIVE SumLen(_, _)
SumLen(f, S) ==
    IF S = {} THEN 0
    ELSE LET x == CHOOSE y \in S : TRUE
         IN  Len(f[x]) + SumLen(f, S \ {x})

\* (4) Collect queue statistics for this tick, and go to the next tick.
Sample ==
    /\ pc = "sample"
    /\ sum_queue' = sum_queue + SumLen(stopped, LinkSet)
    /\ queue_samples' = queue_samples + Cardinality(LinkSet)
    /\ t' = t + 1
    /\ pc' = IF t + 1 < TOTAL_TICKS THEN "arrivals" ELSE "summary"
    /\ last' = <<>>
    /\ passed' = {}
    /\ UNCHANGED <<cfg, seed, rng, run, ni, in_transit, stopped, car_id,
                   completed, sum_tt, result, first, spawned, exited, trials>>

\* "After all ticks, compute summary statistics."
Summary ==
    /\ pc = "summary"
    /\ result' =
         [ticks |-> TOTAL_TICKS,
          cars_completed |-> completed,
          avg_travel_time |->
             IF completed > 0 THEN Ratio(sum_tt, completed) ELSE Zero,
          avg_queue_len_per_light |->
             IF queue_samples > 0 THEN Ratio(sum_queue, queue_samples)
             ELSE Zero]
    /\ first' = IF run = 1 THEN result' ELSE first
    /\ pc' = "done"
    /\ last' = <<>>
    /\ UNCHANGED <<cfg, seed, rng, run, t, ni, in_transit, stopped, car_id,
                   completed, sum_tt, queue_samples, sum_queue, spawned,
                   exited, trials, passed>>

\* The state once the module is loaded, for the configuration c and the
\* seed sd the caller will pass.
Loaded(c, sd) ==
    /\ cfg = c
    /\ seed = sd
    /\ rng = 0
    /\ run = 0
    /\ pc = "idle"
    /\ t = 0
    /\ ni = 1
    /\ in_transit = [l \in LinkSet |-> <<>>]
    /\ stopped = [l \in LinkSet |-> <<>>]
    /\ car_id = 0
    /\ completed = 0
    /\ sum_tt = 0
    /\ queue_samples = 0
    /\ sum_queue = 0
    /\ result = NoResult
    /\ first = NoResult
    /\ spawned = {}
    /\ exited = {}
    /\ last = <<>>
    /\ trials = 0
    /\ passed = {}

\* One call of simulate, free draws, every valid scenario.
Init == \E c \in Configs : Loaded(c, NoSeed)

Next ==
    \/ FirstCall
    \/ ArrivalsStep
    \/ Advance
    \/ ServeStep
    \/ Sample
    \/ Summary

Spec == Init /\ [][Next]_vars

\* Repeated calls of simulate with the same seed, in one process.
InitSeeded == \E sd \in Seeds : Loaded(BaseConfig, sd)

NextSeeded == Next \/ LaterCall

SpecSeeded == InitSeeded /\ [][NextSeeded]_vars

\* One call of simulate, free draws, arrival rate 1.
InitFullRate == Loaded(FullRateConfig, NoSeed)

SpecFullRate == InitFullRate /\ [][Next]_vars

\* One call of simulate under a configuration error, free draws.
InitBadConfig == \E c \in BadConfigs : Loaded(c, NoSeed)

SpecBadConfig == InitBadConfig /\ [][Next]_vars

\* One call of simulate, arrival rate 1 and small capacities: free draws,
\* or seeded draws on the 3 x 3 grid.
InitCongested ==
    \/ \E c \in {CongestedConfig, Congested3Config} : Loaded(c, NoSeed)
    \/ \E sd \in Seeds : Loaded(Congested3LongConfig, sd)

SpecCongested == InitCongested /\ [][Next]_vars

\* One call of simulate on the 3 x 3 grid, free draws.
InitGrid3 == Loaded(Grid3Config, NoSeed)

SpecGrid3 == InitGrid3 /\ [][Next]_vars

(***************************************************************************)
(* Properties                                                              *)
(***************************************************************************)
\* The cars held by link l: in transit, then stopped.
CarsOn(l) ==
    [k \in 1..Len(in_transit[l]) |-> in_transit[l][k][1]] \o stopped[l]

\* All the cars held by some buffer, link after link.
AllCars == Concat([k \in 1..Len(links) |-> CarsOn(links[k])])

BufferedCount == Len(AllCars)

\* Some car is ready on link l and kept out of the full stopped queue.
Stalled(l) ==
    /\ in_transit[l] # <<>>
    /\ in_transit[l][1][2] = 0
    /\ Len(stopped[l]) >= QUEUE_CAP

\* C1: every link holds at most LINK_IN_TRANSIT_CAP cars in transit and at
\* most QUEUE_CAP stopped cars, after every step of every tick.
C1_CapacityInvariant ==
    \A l \in LinkSet :
        /\ Len(in_transit[l]) <= LINK_IN_TRANSIT_CAP
        /\ Len(stopped[l]) <= QUEUE_CAP

\* A link with both buffers at capacity, where a ready car had to stay in
\* transit.
C1_Witness ==
    \E l \in LinkSet :
        /\ QUEUE_CAP > 0
        /\ Len(in_transit[l]) = LINK_IN_TRANSIT_CAP
        /\ Len(stopped[l]) = QUEUE_CAP
        /\ Stalled(l)

\* C2: in a run from empty buffers the cars placed on boundary links so far
\* are the cars held by the buffers plus the completed ones.
C2_Conservation == Cardinality(spawned) = BufferedCount + completed

\* The run is over; some cars completed and others are still on the grid.
C2_Witness == pc = "done" /\ completed > 0 /\ BufferedCount > 0

\* The state part of C3: the cars in the buffers are pairwise distinct, and
\* they are the cars spawned and not exited.
OwnedOnce ==
    LET all == AllCars
        ids == {all[i].id : i \in 1..Len(all)}
    IN  /\ Cardinality(ids) = Len(all)
        /\ ids = spawned \ exited
        /\ exited \subseteq spawned

\* C3: in a run from empty buffers every car spawned and not exited is in
\* exactly one place of one buffer, an exited car is in none, and an exited
\* car stays exited.
C3_ExclusiveOwnership ==
    /\ []OwnedOnce
    /\ [][exited \subseteq exited']_vars

\* A car has just been moved from a stopped queue to the next link, while
\* another one has left the grid.
C3_Witness ==
    /\ exited # {}
    /\ BufferedCount > 0
    /\ \E k \in 1..Len(last) : last[k].outcome = "move"

\* Two summaries are the same statistics.
SameStats(a, b) ==
    /\ a.ticks = b.ticks
    /\ a.cars_completed = b.cars_completed
    /\ SameRatio(a.avg_travel_time, b.avg_travel_time)
    /\ SameRatio(a.avg_queue_len_per_light, b.avg_queue_len_per_light)

\* C4: a later call of simulate with the same configuration and seed
\* returns the statistics of the first call.
C4_Determinism == (pc = "done" /\ run >= 2) => SameStats(result, first)

\* The state at the start of a call of simulate, before the first tick.
StartOfCall == pc = "arrivals" /\ t = 0

\* C5: every call of simulate starts from zeroed counters and empty buffers.
C5_NoLeakage ==
    StartOfCall =>
        /\ car_id = 0 /\ completed = 0 /\ sum_tt = 0
        /\ queue_samples = 0 /\ sum_queue = 0
        /\ \A l \in LinkSet : in_transit[l] = <<>> /\ stopped[l] = <<>>

\* What section 7 of the specification asks of a configuration.
ValidConfig ==
    /\ N > 0
    /\ LINK_IN_TRANSIT_CAP >= 0
    /\ QUEUE_CAP >= 0
    /\ TURN_PROBABILITIES[1] + TURN_PROBABILITIES[2] + TURN_PROBABILITIES[3]
         = 100
    /\ ARRIVAL_RATE >= 0
    /\ CYCLE_NS_GREEN >= 0
    /\ CYCLE_EW_GREEN >= 0

\* C6: under a configuration error simulate executes no tick and fails at no
\* point of the simulation: it is rejected before the run starts.
C6_ConfigRejected == ~ValidConfig => pc = "idle"

\* C7 as claimed: the completed cars took at least BASE_TRAVEL_T ticks each.
C7_TravelTimeBound ==
    completed > 0 => sum_tt >= BASE_TRAVEL_T * completed

\* C7 as amended: in a run from empty buffers the completed cars took at
\* least BASE_TRAVEL_T - 1 ticks each, the time a car spends on its entry
\* link, which is aged in the tick of the spawn.
C7_TravelTimeBoundEntry ==
    completed > 0 => sum_tt >= (BASE_TRAVEL_T - 1) * completed

\* Cars completed, of which one at least left after the entry link alone.
C7_Witness ==
    /\ BASE_TRAVEL_T >= 2
    /\ completed > 0
    /\ \E k \in 1..Len(last) :
          /\ last[k].outcome = "exit"
          /\ t - last[k].car.t_enter = BASE_TRAVEL_T - 1

\* The state part of C8: nothing is stopped or completed, no remaining time
\* is negative.
NothingQueued ==
    /\ completed = 0
    /\ \A l \in LinkSet :
          /\ stopped[l] = <<>>
          /\ \A k \in 1..Len(in_transit[l]) : in_transit[l][k][2] >= 0

\* The step part of C8: a car with remaining time 0 keeps its link and its
\* remaining time.
StalledStay ==
    \A l \in LinkSet :
        \A k \in 1..Len(in_transit[l]) :
            in_transit[l][k][2] = 0 =>
                \E m \in 1..Len(in_transit'[l]) :
                    in_transit'[l][m] = in_transit[l][k]

\* C8: with QUEUE_CAP = 0 no car ever enters a stopped queue or completes,
\* and a car whose travel time has elapsed stays on its link with remaining
\* time 0.
C8_ZeroQueueStall ==
    /\ [](QUEUE_CAP = 0 => NothingQueued)
    /\ [][QUEUE_CAP = 0 => StalledStay]_vars

\* At the end of the run a car is still in transit with remaining time 0,
\* two ticks or more after its travel time elapsed.
C8_Witness ==
    /\ QUEUE_CAP = 0
    /\ pc = "done"
    /\ \E l \in LinkSet :
          \E k \in 1..Len(in_transit[l]) :
              /\ in_transit[l][k][2] = 0
              /\ in_transit[l][k][1].t_enter + BASE_TRAVEL_T + 1 <= t

\* An upper bound of the time to traverse the longest simple path of the
\* grid: N * N - 1 links, each with its travel time and a full signal cycle.
LongestPathTicks == (N * N - 1) * (BASE_TRAVEL_T + CYCLE_TOTAL)

\* No car was refused by a full buffer so far.
NeverBlocked ==
    /\ car_id = Cardinality(spawned)
    /\ \A l \in LinkSet : ~Stalled(l)
    /\ \A k \in 1..Len(last) : last[k].outcome # "blocked"

\* C9 as claimed: with arrival rate 1 and nothing ever blocking, some car has
\* completed once the ticks run exceed the traversal time of the longest
\* path.
C9_Progress ==
    (ARRIVAL_RATE = 100 /\ N >= 2 /\ NeverBlocked /\ t > LongestPathTicks)
        => completed > 0

\* The served cars of the log whose resolved direction has no neighbour.
OffGrid(log) ==
    Cardinality({k \in 1..Len(log) :
                   next_node_for(log[k].link[2], log[k].next_dir) = NoNode})

\* C9 as amended: with arrival rate 1 and nothing ever blocking, each step
\* adds to cars_completed the served cars whose drawn turn points off the
\* grid, so cars_completed becomes positive with the first such draw and
\* not before.
C9_ProgressOnExitDraw ==
    [][ARRIVAL_RATE = 100 => completed' = completed + OffGrid(last')]_vars

\* The run is over, nothing ever blocked and a car has completed.
C9_Witness ==
    /\ ARRIVAL_RATE = 100
    /\ pc = "done"
    /\ car_id = Cardinality(spawned)
    /\ completed > 0

\* C10: with arrival rate 0, in a run from empty buffers every buffer is
\* empty in every state and no car completes.
C10_NoArrivals ==
    ARRIVAL_RATE = 0 =>
        /\ \A l \in LinkSet : in_transit[l] = <<>> /\ stopped[l] = <<>>
        /\ completed = 0
        /\ pc = "done" => result.cars_completed = 0

\* A run with arrival rate 0 on the 3 x 3 grid is over.
C10_Witness == ARRIVAL_RATE = 0 /\ N = 3 /\ pc = "done" /\ t = TOTAL_TICKS

\* The boundary-entry links: the source is on row 0, row N - 1, column 0 or
\* column N - 1 and the destination is the node one step inward on the same
\* column or row.
EntryLink(l) ==
    LET src == l[1]
        dst == l[2]
    IN  \/ src[1] = 0 /\ dst = <<1, src[2]>>
        \/ src[1] = N - 1 /\ dst = <<N - 2, src[2]>>
        \/ src[2] = 0 /\ dst = <<src[1], 1>>
        \/ src[2] = N - 1 /\ dst = <<src[1], N - 2>>

\* The cars in transit on link l.
InTransitCars(it, l) == {it[l][k][1] : k \in 1..Len(it[l])}

\* The cars the in-transit buffer of link l receives in a step.
Received(l) == InTransitCars(in_transit', l) \ InTransitCars(in_transit, l)

\* C11: a car received by an in-transit buffer is either a new car placed by
\* the arrival phase on a boundary-entry link, or a car the intersection
\* service transferred to that link; a link that is not an entry link
\* receives cars from the intersection service only.
C11_BoundaryOnlyEntry ==
    [][\A l \in LinkSet :
         \A c \in Received(l) :
            \/ /\ pc = "arrivals"
               /\ EntryLink(l)
               /\ c.id \in spawned' \ spawned
            \/ /\ pc = "serve"
               /\ \E k \in 1..Len(last') :
                     /\ last'[k].outcome = "move"
                     /\ last'[k].car = c
                     /\ last'[k].target = l]_vars

\* On the 3 x 3 grid a car that entered on an entry link has just been
\* transferred to a link that is not one.
C11_Witness ==
    /\ N = 3
    /\ \E k \in 1..Len(last) :
          /\ last[k].outcome = "move"
          /\ EntryLink(last[k].link)
          /\ ~EntryLink(last[k].target)
          /\ last[k].car \in InTransitCars(in_transit, last[k].target)

\* A quotient that has a value, and that value is 0.
IsZero(r) == r.den # 0 /\ r.num = 0

\* C12: at the end of a run both averages have a value; avg_travel_time is
\* 0 when no car completed and avg_queue_len_per_light is 0 when no sample
\* was taken; on the 1 x 1 grid the run executes all its ticks and returns
\* cars_completed = 0 and both averages 0.
C12_ZeroDenominators ==
    pc = "done" =>
        /\ result.avg_travel_time.den # 0
        /\ result.avg_queue_len_per_light.den # 0
        /\ completed = 0 => IsZero(result.avg_travel_time)
        /\ queue_samples = 0 => IsZero(result.avg_queue_len_per_light)
        /\ N = 1 =>
              /\ t = TOTAL_TICKS
              /\ result.ticks = TOTAL_TICKS
              /\ result.cars_completed = 0
              /\ IsZero(result.avg_travel_time)
              /\ IsZero(result.avg_queue_len_per_light)

\* A run on the 1 x 1 grid with a positive arrival rate is over: no car
\* completed and no sample was taken.
C12_Witness ==
    /\ N = 1
    /\ ARRIVAL_RATE > 0
    /\ pc = "done"
    /\ t = 3
    /\ completed = 0
    /\ queue_samples = 0

\* The cars of link l in the order they are to reach the light: the stopped
\* queue from its head, then the in-transit buffer from its front.
PipelineOrder(it, st, l) ==
    st[l] \o [k \in 1..Len(it[l]) |-> it[l][k][1]]

\* C13: a link advance keeps the order of the cars of every link: cars
\* enter the stopped queue in the order they were inserted in the in-transit
\* buffer, and the cars that stay in transit keep their relative order.
C13_FifoMigration ==
    [][pc = "advance" =>
         \A l \in LinkSet :
            PipelineOrder(in_transit', stopped', l)
               = PipelineOrder(in_transit, stopped, l)]_vars

\* The state part of C14: no remaining time is negative, and on every link
\* the cars with remaining time 0 are ahead of the cars still travelling.
ReadyAhead ==
    \A l \in LinkSet :
        \A k \in 1..Len(in_transit[l]) :
            /\ in_transit[l][k][2] >= 0
            /\ \A m \in 1..(k - 1) :
                  in_transit[l][m][2] = 0 \/ in_transit[l][k][2] > 0

\* The cars of link l that are ready at the next advance.
ReadyCount(l) ==
    Cardinality({k \in 1..Len(in_transit[l]) : in_transit[l][k][2] <= 1})

\* The free places of the stopped queue of link l.
Room(l) ==
    IF Len(stopped[l]) < QUEUE_CAP THEN QUEUE_CAP - Len(stopped[l]) ELSE 0

\* The step part of C14, for the advance of link l: every car left in
\* transit has its remaining time decremented by one, or is ready and held
\* at 0; ready cars are migrated as long as the stopped queue has room,
\* stalled cars of earlier ticks included; the link holds the same cars.
Backpressure(l) ==
    /\ \A k \in 1..Len(in_transit'[l]) :
          \E m \in 1..Len(in_transit[l]) :
             /\ in_transit'[l][k][1] = in_transit[l][m][1]
             /\ in_transit'[l][k][2] =
                   IF in_transit[l][m][2] <= 1 THEN 0
                   ELSE in_transit[l][m][2] - 1
    /\ Len(stopped'[l]) - Len(stopped[l]) =
          IF ReadyCount(l) < Room(l) THEN ReadyCount(l) ELSE Room(l)
    /\ Len(in_transit'[l]) + Len(stopped'[l])
          = Len(in_transit[l]) + Len(stopped[l])
    /\ InTransitCars(in_transit', l) \cup Range(stopped'[l])
          = InTransitCars(in_transit, l) \cup Range(stopped[l])

\* C14: a link advance ages every car in transit by one tick; a ready car
\* that finds the stopped queue full stays on its link, ahead of the cars
\* still travelling, with remaining time 0, and is migrated by a later
\* advance once the queue has room; an advance moves cars only from the
\* in-transit buffer of a link to the stopped queue of the same link and
\* changes no counter.
C14_Backpressure ==
    /\ []ReadyAhead
    /\ [][pc = "advance" =>
            /\ \A l \in LinkSet : Backpressure(l)
            /\ UNCHANGED <<car_id, completed, sum_tt, queue_samples,
                           sum_queue, spawned, exited>>]_vars

\* Just after an advance a ready car is held at the front of its link with
\* remaining time 0, behind a full stopped queue and ahead of a car that is
\* still travelling.
C14_Witness ==
    /\ pc = "serve"
    /\ ni = 1
    /\ \E l \in LinkSet :
          /\ Len(in_transit[l]) >= 2
          /\ in_transit[l][1][2] = 0
          /\ in_transit[l][2][2] > 0
          /\ Len(stopped[l]) >= QUEUE_CAP

\* The cars the log says left the stopped queue of link l, in that order.
LeftFrom(log, l) ==
    LET Left(e) == e.link = l /\ e.outcome # "blocked"
        evs == SelectSeq(log, Left)
    IN  [k \in 1..Len(evs) |-> evs[k].car]

\* The step part of C15 for the stopped queue of link l: the cars that leave
\* it in a step are its first cars, in queue order and at most FLOW_PER_TICK
\* of them, they leave in the service of the node the link leads to, and
\* the queue is otherwise changed by appending at its tail only.
FifoService(l) ==
    LET out == LeftFrom(last', l)
        n == Len(out)
        q == stopped[l]
    IN  /\ n <= FLOW_PER_TICK
        /\ n <= Len(q)
        /\ out = SubSeq(q, 1, n)
        /\ n > 0 => pc = "serve" /\ l[2] = nodes[ni]
        /\ IF pc = "advance"
           THEN /\ Len(stopped'[l]) >= Len(q)
                /\ SubSeq(stopped'[l], 1, Len(q)) = q
           ELSE stopped'[l] = SubSeq(q, n + 1, Len(q))

\* The step part of C15 for the loop over the nodes: it takes each node
\* once, in the order of the list, within one tick, after the one link
\* advance of the tick.
OncePerTick ==
    /\ \A a, b \in 1..Len(nodes) : nodes[a] = nodes[b] => a = b
    /\ pc = "serve" => ni \in 1..Len(nodes) /\ ni' = ni + 1 /\ t' = t
    /\ ni' # ni => pc = "serve" \/ (pc = "advance" /\ ni' = 1)
    /\ (pc' = "serve" /\ pc # "serve") => pc = "advance"
    /\ pc' = "advance" => pc = "arrivals"
    /\ pc' = "arrivals" => (pc = "sample" /\ t' = t + 1) \/ pc = "idle"

LinkDirection(l) ==
    LET src == l[1]
        dst == l[2]
    IN  IF dst[1] < src[1] THEN NORTH
        ELSE IF dst[1] > src[1] THEN SOUTH
        ELSE IF dst[2] > src[2] THEN EAST
        ELSE WEST

\* The green set of tick tick.
GreenSet(tick) ==
    IF tick % (CYCLE_NS_GREEN + CYCLE_EW_GREEN) < CYCLE_NS_GREEN
    THEN {NORTH, SOUTH}
    ELSE {EAST, WEST}

\* The state part of C16: every node has the green set of the tick, and the
\* approach direction the service compares with it is the travel direction
\* of the link.
SharedPhase ==
    \A k \in 1..Len(nodes) :
        /\ signal_phase(t, nodes[k]) = GreenSet(t)
        /\ \A m \in 1..Len(incoming_for(nodes[k])) :
              incoming_for(nodes[k])[m][2] =
                 LinkDirection(<<incoming_for(nodes[k])[m][1], nodes[k]>>)

\* The step part of C16: a stopped queue loses a car only in the service
\* phase of a tick in which the travel direction of its link is green.
RedHolds ==
    \A l \in LinkSet :
        (\/ Len(stopped'[l]) < Len(stopped[l])
         \/ \E c \in Range(stopped[l]) : c \notin Range(stopped'[l]))
            => pc = "serve" /\ LinkDirection(l) \in GreenSet(t)

\* C16: at tick t every node has the same green set, North-South in the
\* first CYCLE_NS_GREEN ticks of the cycle and East-West in the others, and
\* a car leaves a stopped queue at tick t only if the travel direction of
\* its link is in the green set of t.
C16_SignalGating ==
    /\ []SharedPhase
    /\ [][RedHolds]_vars

\* In the second signal cycle a car has just been served from a green
\* approach while a car is held by a red approach.
C16_Witness ==
    /\ t >= CYCLE_NS_GREEN + CYCLE_EW_GREEN
    /\ \E k \in 1..Len(last) :
          /\ last[k].outcome # "blocked"
          /\ LinkDirection(last[k].link) \in GreenSet(t)
    /\ \E l \in LinkSet :
          /\ stopped[l] # <<>>
          /\ LinkDirection(l) \notin GreenSet(t)

\* What the transfers of the log put on link l, in that order.
MovedTo(log, l) ==
    LET To(e) == e.outcome = "move" /\ e.target = l
        evs == SelectSeq(log, To)
    IN  [k \in 1..Len(evs) |-> <<evs[k].car, BASE_TRAVEL_T>>]

\* The cars the log says exited.
ExitsOf(log) ==
    LET Out(e) == e.outcome = "exit"
    IN  SelectSeq(log, Out)

\* The step part of C17 for the k-th attempt of a service, a blocked one:
\* the target was at capacity, the car is still the head of its stopped
\* queue and on no link, and the service made no later attempt on the same
\* approach.
HeadOfLine(k) ==
    LET e == last'[k]
    IN  /\ Len(in_transit[e.target])
             + Len(MovedTo(SubSeq(last', 1, k - 1), e.target))
             >= LINK_IN_TRANSIT_CAP
        /\ stopped'[e.link] # <<>>
        /\ Head(stopped'[e.link]) = e.car
        /\ \A l \in LinkSet : e.car \notin InTransitCars(in_transit', l)
        /\ \A m \in (k + 1)..Len(last') : last'[m].link # e.link

\* The step part of C17 for the whole service of a node: every green
\* approach with a stopped car is attempted, whatever happened to the
\* approaches before it, and the loop goes on to the next node; the
\* in-transit buffers receive the transferred cars and nothing else; the
\* counters count the exits and nothing else.
BlockedChangesNothing ==
    /\ \A k \in 1..Len(incoming_for(nodes[ni])) :
          LET l == <<incoming_for(nodes[ni])[k][1], nodes[ni]>>
          IN  (stopped[l] # <<>> /\ LinkDirection(l) \in GreenSet(t))
                 => \E m \in 1..Len(last') : last'[m].link = l
    /\ ni' = ni + 1
    /\ \A l \in LinkSet : in_transit'[l] = in_transit[l] \o MovedTo(last', l)
    /\ completed' = completed + Len(ExitsOf(last'))
    /\ car_id' = car_id
    /\ queue_samples' = queue_samples
    /\ sum_queue' = sum_queue
    /\ (ExitsOf(last') = <<>>) => sum_tt' = sum_tt

\* C17: when the head car of a green approach is routed to a link whose
\* in-transit buffer is at capacity, the car stays at the head of its
\* stopped queue, the target buffer and the counters are as if the attempt
\* had not been made, no other car of that approach is served in this
\* tick, and the other approaches and nodes are served all the same.
C17_HeadOfLineBlocking ==
    [][pc = "serve" =>
         /\ BlockedChangesNothing
         /\ \A k \in 1..Len(last') :
               last'[k].outcome = "blocked" => HeadOfLine(k)]_vars

\* A head car has just been refused by a full link with a second car
\* waiting behind it and a flow limit of two, and an approach served after
\* it in the same service let a car through.
C17_Witness ==
    /\ FLOW_PER_TICK >= 2
    /\ \E k \in 1..Len(last) :
          /\ last[k].outcome = "blocked"
          /\ Len(stopped[last[k].link]) >= 2
          /\ Head(stopped[last[k].link]) = last[k].car
          /\ \E m \in (k + 1)..Len(last) :
                /\ last[m].outcome # "blocked"
                /\ last[m].link # last[k].link

\* The successor and the predecessor of direction d in the cyclic order
\* North, East, South, West.
Successor(d) ==
    IF d = NORTH THEN EAST
    ELSE IF d = EAST THEN SOUTH
    ELSE IF d = SOUTH THEN WEST
    ELSE NORTH

Predecessor(d) ==
    IF d = NORTH THEN WEST
    ELSE IF d = WEST THEN SOUTH
    ELSE IF d = SOUTH THEN EAST
    ELSE NORTH

\* The in-bounds neighbours of node n in direction d: one node or none.
Neighbours(n, d) ==
    {m \in Range(nodes) : <<n, m>> \in LinkSet /\ LinkDirection(<<n, m>>) = d}

\* The state part of C18: what each turn makes of each direction, and that
\* every draw resolves to one of the three.
TurnTable ==
    \A d \in Range(CLOCKWISE) :
        /\ rotate(d, STRAIGHT) = d
        /\ rotate(d, LEFT) = Predecessor(d)
        /\ rotate(d, RIGHT) = Successor(d)
        /\ \A u \in TurnDraws :
              turn_direction(d, u) \in {d, Predecessor(d), Successor(d)}

\* The travel times of the exits evs at tick tick, summed.
RECURSIVE TravelTimes(_, _)
TravelTimes(evs, tick) ==
    IF evs = <<>> THEN 0
    ELSE (tick - Head(evs).car.t_enter) + TravelTimes(Tail(evs), tick)

\* The step part of C18 for the attempt e of the service of a node: the new
\* direction is one of the three turns of the travel direction of the
\* approach; with no neighbour in that direction the car exits and is in no
\* buffer; otherwise the link from the node to that neighbour is the
\* target, and a transferred car is on it with remaining time
\* BASE_TRAVEL_T, and in no other buffer.
Resolved(e) ==
    LET n == e.link[2]
        nb == Neighbours(n, e.next_dir)
    IN  /\ n = nodes[ni]
        /\ e.dir = LinkDirection(e.link)
        /\ e.next_dir \in {e.dir, Predecessor(e.dir), Successor(e.dir)}
        /\ Cardinality(nb) <= 1
        /\ e.outcome = "exit" <=> nb = {}
        /\ e.outcome = "exit" =>
              /\ e.car.id \in exited'
              /\ \A l \in LinkSet :
                    /\ e.car \notin InTransitCars(in_transit', l)
                    /\ e.car \notin Range(stopped'[l])
        /\ e.outcome # "exit" => e.target \in {<<n, m>> : m \in nb}
        /\ e.outcome = "move" =>
              /\ \E k \in (Len(in_transit[e.target]) + 1)
                             ..Len(in_transit'[e.target]) :
                    in_transit'[e.target][k] = <<e.car, BASE_TRAVEL_T>>
              /\ \A l \in LinkSet :
                    /\ e.car \in InTransitCars(in_transit', l) => l = e.target
                    /\ e.car \notin Range(stopped'[l])

\* C18: a served car goes straight, to the predecessor (left) or to the
\* successor (right) of its travel direction in the cyclic order North,
\* East, South, West; if the node has no neighbour there the car exits,
\* which adds 1 to the completed count and the current tick minus its entry
\* tick to the cumulative travel time, and otherwise it is appended to the
\* in-transit buffer of the link to that neighbour with remaining time
\* BASE_TRAVEL_T.
C18_TurnResolution ==
    /\ []TurnTable
    /\ [][pc = "serve" =>
            /\ \A k \in 1..Len(last') : Resolved(last'[k])
            /\ completed' = completed + Len(ExitsOf(last'))
            /\ sum_tt' = sum_tt + TravelTimes(ExitsOf(last'), t)]_vars

\* On the 3 x 3 grid a car has exited, and the centre node has just sent a
\* car that turned onto the link to a neighbour.
C18_Witness ==
    /\ N = 3
    /\ completed > 0
    /\ sum_tt > 0
    /\ \E k \in 1..Len(last) :
          /\ last[k].outcome = "move"
          /\ last[k].link[2] = <<1, 1>>
          /\ last[k].next_dir # last[k].dir
          /\ <<last[k].car, BASE_TRAVEL_T>>
                \in Range(in_transit[last[k].target])

\* The state part of C19: the counter is the number of successful arrival
\* trials of the run, accepted or not; the cars in the buffers have
\* pairwise distinct ids, none above the counter, that grow with the entry
\* tick; the counter is at least the cars in the buffers plus the completed
\* ones.
IdsInSequence ==
    LET all == AllCars
        cars == Range(all)
    IN  /\ car_id = trials
        /\ Cardinality({c.id : c \in cars}) = Len(all)
        /\ \A a \in cars :
              /\ a.id \in 1..car_id
              /\ \A b \in cars : a.t_enter < b.t_enter => a.id < b.id
        /\ car_id >= Len(all) + completed

\* The step part of C19: the counter moves only in the arrival phase, where
\* it never decreases; the cars placed in that phase take the ids above the
\* old value of the counter, in the order of their links.
NewIds ==
    /\ car_id' # car_id => pc = "arrivals" \/ pc = "idle" \/ pc = "done"
    /\ pc = "arrivals" =>
          /\ car_id' >= car_id
          /\ \A a \in 1..Len(links) :
                \A c \in Received(links[a]) :
                   /\ c.id \in (car_id + 1)..car_id'
                   /\ c.t_enter = t
                   /\ \A b \in (a + 1)..Len(links) :
                         \A e \in Received(links[b]) : c.id < e.id

\* C19: in a run the car-id counter advances by one on every successful
\* arrival trial, also when the new car is refused by a full link, so the
\* ids of the cars in the system are pairwise distinct and increase in
\* creation order, with gaps, and the counter is never below the cars in
\* the buffers plus the completed ones.
C19_CarIdSequence ==
    /\ []IdsInSequence
    /\ [][NewIds]_vars

\* After an arrival phase with a failed trial, a car placed and a car
\* refused: the counter is above the number of cars ever placed.
C19_Witness ==
    /\ pc = "advance"
    /\ ARRIVAL_RATE < 100
    /\ car_id = 2
    /\ spawned = {1}
    /\ BufferedCount + completed = 1

\* The index of node n in the list of nodes.
NodeIndex(n) == CHOOSE k \in 1..Len(nodes) : nodes[k] = n

\* The state part of C20: a car served in this tick and still on the grid
\* is in an in-transit buffer, in no stopped queue.
ServedStayInTransit ==
    \A l \in LinkSet :
        \A k \in 1..Len(stopped[l]) : stopped[l][k].id \notin passed

\* The step part of C20: a served car does not go back to the node it came
\* from, and no car leaves a stopped queue twice in a tick.
NoUTurn ==
    \A k \in 1..Len(last') :
        LET e == last'[k]
        IN  /\ e.next_dir # Successor(Successor(e.dir))
            /\ e.outcome # "exit" => e.target # <<e.link[2], e.link[1]>>
            /\ e.outcome # "blocked" =>
                  /\ e.car.id \notin passed
                  /\ \A m \in 1..(k - 1) :
                        last'[m].outcome # "blocked"
                           => last'[m].car.id # e.car.id

\* C20: a car served from the stopped queue of link (u,n) is never placed
\* on link (n,u), and a car transferred in the service phase of a tick is
\* in an in-transit buffer for the rest of the tick, so that no car leaves
\* two stopped queues in one tick.
C20_NoUTurnOneNodePerTick ==
    /\ []ServedStayInTransit
    /\ [][NoUTurn]_vars

\* A car was transferred straight on to the link to a node that comes later
\* in the list of nodes; that node has been served in the same tick, with
\* the link green, and the car is still in transit on the link.
C20_Witness ==
    \E l \in LinkSet :
        /\ NodeIndex(l[1]) < NodeIndex(l[2])
        /\ (pc = "sample" \/ (pc = "serve" /\ ni > NodeIndex(l[2])))
        /\ LinkDirection(l) \in GreenSet(t)
        /\ \E k \in 1..Len(in_transit[l]) :
              /\ in_transit[l][k][1].id \in passed
              /\ in_transit[l][k][2] = BASE_TRAVEL_T

====
